---- MODULE Spec2Model ----
(***************************************************************************)
(* A model of creevey's browser session and screenshot engine              *)
(* (server/selenium/browser.ts), of the master's run/shutdown glue         *)
(* (server/master/index.ts), of the process-level fatal-error handler     *)
(* (creevey.ts) and of the master's scheduler and its retry policy.        *)
(*                                                                         *)
(* Each asynchronous function is a small state machine: one action per     *)
(* continuation (the code between two awaits).  A remote WebDriver call    *)
(* either resolves or rejects; both outcomes are enumerated.               *)
(*                                                                         *)
(* Geometry is in whole page pixels (Math.round is then the identity and   *)
(* Math.ceil(a / b) is the integer ceiling).                               *)
(***************************************************************************)
EXTENDS Integers, Sequences, FiniteSets, TLC

VARIABLES
  \* ---- takeScreenshot / takeCompositeScreenshot -------------------------
  ts_pc,            \* position inside takeScreenshot
  captureElement,   \* the capture selector argument ("" when absent)
  ignoreElements,   \* the ignore selectors argument, a sequence of strings
  ignoreStyles,     \* handle returned by insertIgnoreStyles, or "null"
  windowRect,       \* measured by the in-page script
  elementRect,      \* measured by the in-page script
  scrollBarWidth,   \* getScrollBarWidth(browser)
  isScreenshotWithoutScrollBar,
  row, col,         \* loop counters of the tile loop
  screens,          \* tiles captured so far: the scroll target of each
  compositeImage,   \* [width, height] of the allocated output raster
  calls,            \* remote calls issued so far, in order
  ts_outcome,       \* what the try block produced
  ts_result,        \* how takeScreenshot completed
  \* ---- openStorybookPage / resolveStorybookUrl --------------------------
  rs_pc,            \* position inside openStorybookPage
  storybookUrl,     \* host of the configured storybook URL
  hasResolver,      \* config.resolveStorybookUrl is given
  networks,         \* os.networkInterfaces(): a sequence of interfaces
  pages,            \* host -> what the page served there renders
  rs_idx,           \* index into addresses of the candidate being checked
  source,           \* the local `source` of openUrlAndWaitForPageSource
  gets,             \* browser.get calls so far: [host, path]
  checked,          \* candidates checkUrl has answered for: [host, ok]
  rs_result,        \* how openStorybookPage completed
  \* ---- getBrowser -------------------------------------------------------
  gb_pc,            \* the remote call getBrowser is suspended on, or "done"
  browser,          \* the local `browser`: "null" or "session"
  shuttingDown,     \* the local `shuttingDown`
  session,          \* the remote session: "none", "live" or "quit"
  viewport,         \* browserConfig.viewport is given
  storybookGlobals, \* browserConfig._storybookGlobals is given
  versionLessThan6, \* isStorybookVersionLessThan(6)
  shutdownAt,       \* where getBrowser was when the shutdown event came
  gb_steps,         \* open steps started: [step, late]
  gb_error,         \* the error caught by the catch block
  gb_result,        \* how getBrowser completed
  \* ---- the master process ----------------------------------------------
  m_pc,             \* position of the default export of master/index.ts
  ui,               \* options.ui
  runner,           \* the local `runner`: "null" or "runner"
  isRunning,        \* runner.isRunning
  tests,            \* runner.status.tests
  stopHandler,      \* the once('stop') listener of line 97 is registered
  races,            \* one per SIGINT taken while running: how it was settled
  timers,           \* the grace timer of each race: "armed" or "fired"
  stopRequests,     \* calls of runner.stop()
  shutdownCalls,    \* calls of shutdownWorkers(), by calling site
  isShuttingDown,   \* isShuttingDown.current
  exitCode,         \* process.exitCode, "unset" being UnsetExitCode
  exitPending,      \* a shutdownWorkers().then(() => process.exit()) is waiting
  exited,           \* process.exit() was called
  \* ---- switchStory ------------------------------------------------------
  sw_pc,            \* the remote call switchStory is suspended on, or "done"
  context,          \* the mocha context: "ok", "noCurrentTest" or "noStory"
  hook,             \* window.__CREEVEY_SELECT_STORY__ is defined on the page
  hookAnswer,       \* what the hook passes to the callback
  pinned,           \* creeveyParams.captureElement: "undefined", "null" or a selector
  childrenCount,    \* childElementCount of #root
  sw_calls,         \* remote calls of switchStory so far: [op, answer]
  captureProperty,  \* this.captureElement: "previous", "defined" or "deleted"
  boundTo,          \* the selector this.takeScreenshot is bound to, or "previous"
  sw_result,        \* how switchStory completed
  \* ---- the process the fatal-error handler runs in ----------------------
  isWorker,         \* cluster.isWorker
  emitted,          \* messages sent to the master by emitWorkerMessage
  \* ---- the scheduler of the master --------------------------------------
  maxRetries,       \* the configured retry limit
  registry,         \* test id -> [status, retries]
  assigned,         \* worker -> the test it runs, 0 when idle
  crashes           \* worker processes that have crashed so far

shotVars == <<ts_pc, captureElement, ignoreElements, ignoreStyles, windowRect,
              elementRect, scrollBarWidth, isScreenshotWithoutScrollBar,
              row, col, screens, compositeImage, calls, ts_outcome, ts_result>>

resVars == <<rs_pc, storybookUrl, hasResolver, networks, pages, rs_idx, source,
             gets, checked, rs_result>>

gbVars == <<gb_pc, browser, shuttingDown, session, viewport, storybookGlobals,
            versionLessThan6, shutdownAt, gb_steps, gb_error, gb_result>>

masterVars == <<m_pc, ui, runner, isRunning, tests, stopHandler, races, timers,
                stopRequests, shutdownCalls, isShuttingDown, exitCode,
                exitPending, exited>>

storyVars == <<sw_pc, context, hook, hookAnswer, pinned, childrenCount, sw_calls,
               captureProperty, boundTo, sw_result>>

roleVars == <<isWorker, emitted>>

poolVars == <<maxRetries, registry, assigned, crashes>>

vars == <<shotVars, resVars, gbVars, masterVars, storyVars, roleVars, poolVars>>

(* What a step of one component leaves alone.                              *)
notShot == <<resVars, gbVars, masterVars, storyVars, roleVars, poolVars>>
notResolve == <<shotVars, gbVars, masterVars, storyVars, roleVars, poolVars>>
notBrowser == <<shotVars, resVars, masterVars, storyVars, roleVars, poolVars>>
notMaster == <<shotVars, resVars, gbVars, storyVars, roleVars, poolVars>>
notPool == <<shotVars, resVars, gbVars, masterVars, storyVars, roleVars>>
notStory == <<shotVars, resVars, gbVars, masterVars, roleVars, poolVars>>

----------------------------------------------------------------------------
(* Bounds of the model.                                                    *)

MaxWin == 3      \* viewport width and height range over 2..MaxWin
MaxEl == 5       \* element width and height range over 1..MaxEl
MaxOff == 1      \* element left and top range over -1..MaxOff
MaxSb == 1       \* scrollbar width ranges over 0..MaxSb
MaxNets == 2     \* at most MaxNets network interfaces
MaxInfos == 2    \* at most MaxInfos addresses per interface
MaxTests == 2    \* the registry holds MaxTests test ids
MaxSigint == 2   \* at most MaxSigint interrupt signals are delivered
MaxChildren == 3 \* #root has 0..MaxChildren child elements
MaxFatal == 2    \* a worker reports at most MaxFatal fatal errors
MaxRetries == 2  \* the configured retry limit ranges over 0..MaxRetries
MaxWorkers == 2  \* the pool holds MaxWorkers workers
MaxCrashes == 2  \* at most MaxCrashes worker processes crash

----------------------------------------------------------------------------
(* Small helpers.                                                          *)

Max(a, b) == IF a >= b THEN a ELSE b
Min(a, b) == IF a <= b THEN a ELSE b
CeilDiv(a, b) == (a + b - 1) \div b
Rect(l, t, w, h) == [left |-> l, top |-> t, width |-> w, height |-> h]
NoRect == Rect(0, 0, 0, 0)
Call(op, x, y) == [op |-> op, x |-> x, y |-> y]
Outcome(kind, detail, selector) == [kind |-> kind, detail |-> detail, selector |-> selector]
NoOutcome == Outcome("none", "", "")
Screenshot(path) == Outcome("screenshot", path, "")
RemoteError(call) == Outcome("error", call, "")
(* new Error(`Couldn't find element with selector: '${captureElement}'`)    *)
ElementNotFound(selector) == Outcome("error", "Couldn't find element with selector", selector)
CountOp(log, op) == Cardinality({i \in 1..Len(log) : log[i].op = op})
FirstOp(log, op) ==
  IF \E i \in 1..Len(log) : log[i].op = op
  THEN CHOOSE i \in 1..Len(log) :
         log[i].op = op /\ \A k \in 1..(i - 1) : log[k].op # op
  ELSE 0

----------------------------------------------------------------------------
(* takeCompositeScreenshot: the tile geometry (lines 415-432).             *)

NormalizedElementRect(w, e) ==
  [left   |-> e.left - w.left,
   right  |-> e.left + e.width - w.left,
   top    |-> e.top - w.top,
   bottom |-> e.top + e.height - w.top]

IsFitHorizontally(w, e) == w.width >= e.width + NormalizedElementRect(w, e).left
IsFitVertically(w, e) == w.height >= e.height + NormalizedElementRect(w, e).top

ViewportWidth(w, e, sb) == w.width - (IF IsFitVertically(w, e) THEN 0 ELSE sb)
ViewportHeight(w, e, sb) == w.height - (IF IsFitHorizontally(w, e) THEN 0 ELSE sb)

Cols(w, e, sb) == CeilDiv(e.width, ViewportWidth(w, e, sb))
Rows(w, e, sb) == CeilDiv(e.height, ViewportHeight(w, e, sb))

XOffset(w, e, sb) ==
  IF IsFitHorizontally(w, e)
  THEN NormalizedElementRect(w, e).left
  ELSE Max(0, Cols(w, e, sb) * ViewportWidth(w, e, sb) - e.width)

YOffset(w, e, sb) ==
  IF IsFitVertically(w, e)
  THEN NormalizedElementRect(w, e).top
  ELSE Max(0, Rows(w, e, sb) * ViewportHeight(w, e, sb) - e.height)

(* The scroll target of tile (r, c) (lines 436-443).                       *)
Dx(w, e, sb, c) ==
  Min(ViewportWidth(w, e, sb) * c + NormalizedElementRect(w, e).left,
      Max(0, NormalizedElementRect(w, e).right - ViewportWidth(w, e, sb)))

Dy(w, e, sb, r) ==
  Min(ViewportHeight(w, e, sb) * r + NormalizedElementRect(w, e).top,
      Max(0, NormalizedElementRect(w, e).bottom - ViewportHeight(w, e, sb)))

(* The reconstruction loop (lines 458-477), for destination pixel (x, y).  *)
(* Offsets are in pixels: the code's i and j are these times 4 channels.   *)
PixelCol(w, e, sb, x) == x \div ViewportWidth(w, e, sb)
PixelRow(w, e, sb, y) == y \div ViewportHeight(w, e, sb)
IsLastCol(w, e, sb, x) == Cols(w, e, sb) - PixelCol(w, e, sb, x) = 1
IsLastRow(w, e, sb, y) == Rows(w, e, sb) - PixelRow(w, e, sb, y) = 1
ScrollOffset(w, e, sb, noSb) == IF IsFitVertically(w, e) \/ noSb THEN 0 ELSE sb
Stride(w, e, sb, noSb) == ViewportWidth(w, e, sb) + ScrollOffset(w, e, sb, noSb)

SourceJ(w, e, sb, noSb, x, y) ==
  ((y % ViewportHeight(w, e, sb)) * Stride(w, e, sb, noSb)
     + (x % ViewportWidth(w, e, sb)))
  + (IF IsLastRow(w, e, sb, y) THEN YOffset(w, e, sb) * Stride(w, e, sb, noSb) ELSE 0)
  + (IF IsLastCol(w, e, sb, x) THEN XOffset(w, e, sb) ELSE 0)

(* Line 472 with the tiles indexed column by column (a mutant).            *)
ImageIndexColumnMajor(w, e, sb, x, y) ==
  PixelCol(w, e, sb, x) * Rows(w, e, sb) + PixelRow(w, e, sb, y)

(* Line 472: images[row * cols + col].                                     *)
ImageIndex(w, e, sb, x, y) ==
  PixelRow(w, e, sb, y) * Cols(w, e, sb) + PixelCol(w, e, sb, x)

(* A tile is a raster whose rows are Stride pixels long: offset j of the   *)
(* tile's data is tile pixel (j % Stride, j \div Stride).                  *)
SourcePx(w, e, sb, noSb, x, y) == SourceJ(w, e, sb, noSb, x, y) % Stride(w, e, sb, noSb)
SourcePy(w, e, sb, noSb, x, y) == SourceJ(w, e, sb, noSb, x, y) \div Stride(w, e, sb, noSb)

CompositeSize(e) == [width |-> e.width, height |-> e.height]

(* The raster of a tile, in pixels: browser.takeScreenshot() (line 451)    *)
(* returns the window, whose rows are Stride pixels long as line 467       *)
(* takes them to be, and which has at most the window's height of rows.    *)
TileRasterSize(w, e, sb, noSb) == Stride(w, e, sb, noSb) * w.height

----------------------------------------------------------------------------
(* takeScreenshot (lines 482-540).                                         *)

(* Array.prototype.concat(ignoreElements).filter(Boolean) (line 700).      *)
IgnoreSelectors(ie) == SelectSeq(ie, LAMBDA s : s # "")

(* The fit test as a bug would have it: the vertical extent forgotten.     *)
IsFitIntoViewportWidthOnly(w, e) == e.width + e.left <= w.width

IsFitIntoViewport(w, e) ==
  /\ e.width + e.left <= w.width
  /\ e.height + e.top <= w.height

(* The arguments takeScreenshot is called with.                            *)
CaptureInputs == {"", "#root", "#missing"}
IgnoreInputs == {<<>>, <<"">>, <<".ignore">>, <<"", ".ignore">>}

(* What the in-page measuring script can return for a present element.     *)
(* window.scrollTo(0, 0) runs first, so the scroll offsets read back are 0.*)
WindowRects == {Rect(0, 0, w, h) : w \in 2..MaxWin, h \in 2..MaxWin}
ElementRects ==
  {Rect(l, t, w, h) : l \in (-1)..MaxOff, t \in (-1)..MaxOff,
                      w \in 1..MaxEl, h \in 1..MaxEl}
ScenarioWindow == Rect(0, 0, 800, 600)
ScenarioElement == Rect(0, 0, 1600, 600)
ScenarioScrollBars == {15}

InitShot ==
  /\ ts_pc = "start"
  /\ captureElement \in CaptureInputs
  /\ ignoreElements \in IgnoreInputs
  /\ ignoreStyles = "null"
  /\ windowRect = NoRect
  /\ elementRect = NoRect
  /\ scrollBarWidth = 0
  /\ isScreenshotWithoutScrollBar = FALSE
  /\ row = 0
  /\ col = 0
  /\ screens = <<>>
  /\ compositeImage = [width |-> 0, height |-> 0]
  /\ calls = <<>>
  /\ ts_outcome = NoOutcome
  /\ ts_result = NoOutcome

geomVars == <<windowRect, elementRect, scrollBarWidth, isScreenshotWithoutScrollBar>>
loopVars == <<row, col, screens, compositeImage>>
argVars == <<captureElement, ignoreElements>>

(* insertIgnoreStyles (lines 696-706), awaited before the try block.       *)
InsertIgnoreStyles ==
  /\ ts_pc = "start"
  /\ IF Len(IgnoreSelectors(ignoreElements)) = 0
     THEN /\ ignoreStyles' = "null"
          /\ ts_pc' = "try"
          /\ UNCHANGED <<calls, ts_result>>
     ELSE \/ /\ ignoreStyles' = "style"
             /\ calls' = Append(calls, Call("insert", 0, 0))
             /\ ts_pc' = "try"
             /\ UNCHANGED ts_result
          \/ /\ ts_pc' = "done"
             /\ ts_result' = RemoteError("insertIgnoreStyles")
             /\ UNCHANGED <<ignoreStyles, calls>>
  /\ UNCHANGED <<argVars, geomVars, loopVars, ts_outcome>>
  /\ UNCHANGED notShot

(* Line 493: no capture selector, one full-viewport screenshot.            *)
FullViewportShot ==
  /\ ts_pc = "try"
  /\ captureElement = ""
  /\ calls' = Append(calls, Call("takeScreenshot", 0, 0))
  /\ \/ ts_outcome' = Screenshot("viewport")
     \/ ts_outcome' = RemoteError("takeScreenshot")
  /\ ts_pc' = "finally"
  /\ UNCHANGED <<argVars, ignoreStyles, geomVars, loopVars, ts_result>>
  /\ UNCHANGED notShot

(* The measuring step as a bug would have it: the missing-element check of *)
(* line 524 dropped, the element path taken with an empty rect.            *)
MeasureElementUnchecked ==
  /\ ts_pc = "try"
  /\ captureElement # ""
  /\ calls' = Append(calls, Call("measure", 0, 0))
  /\ \/ /\ ts_outcome' = RemoteError("measure")
        /\ ts_pc' = "finally"
        /\ UNCHANGED <<windowRect, elementRect>>
     \/ /\ captureElement = "#missing"
        /\ ts_pc' = "element"
        /\ UNCHANGED <<ts_outcome, windowRect, elementRect>>
     \/ /\ captureElement = "#root"
        /\ \/ /\ windowRect' \in WindowRects
              /\ elementRect' \in ElementRects
           \/ /\ windowRect' = ScenarioWindow
              /\ elementRect' = ScenarioElement
        /\ ts_pc' = IF IsFitIntoViewport(windowRect', elementRect')
                    THEN "element" ELSE "composite"
        /\ UNCHANGED ts_outcome
  /\ UNCHANGED <<argVars, ignoreStyles, scrollBarWidth,
                 isScreenshotWithoutScrollBar, loopVars, ts_result>>
  /\ UNCHANGED notShot

(* Lines 495-533: measure, then pick the element or the composite path.    *)
MeasureElement ==
  /\ ts_pc = "try"
  /\ captureElement # ""
  /\ calls' = Append(calls, Call("measure", 0, 0))
  /\ \/ /\ ts_outcome' = RemoteError("measure")
        /\ ts_pc' = "finally"
        /\ UNCHANGED <<windowRect, elementRect>>
     \/ /\ captureElement = "#missing"
        /\ ts_outcome' = ElementNotFound(captureElement)
        /\ ts_pc' = "finally"
        /\ UNCHANGED <<windowRect, elementRect>>
     \/ /\ captureElement = "#root"
        /\ \/ /\ windowRect' \in WindowRects
              /\ elementRect' \in ElementRects
           \/ /\ windowRect' = ScenarioWindow
              /\ elementRect' = ScenarioElement
        /\ ts_pc' = IF IsFitIntoViewport(windowRect', elementRect')
                    THEN "element" ELSE "composite"
        /\ UNCHANGED ts_outcome
  /\ UNCHANGED <<argVars, ignoreStyles, scrollBarWidth,
                 isScreenshotWithoutScrollBar, loopVars, ts_result>>
  /\ UNCHANGED notShot

(* Line 531: browser.findElement(By.css(captureElement)).takeScreenshot(). *)
ElementShot ==
  /\ ts_pc = "element"
  /\ calls' = Append(calls, Call("elementScreenshot", 0, 0))
  /\ \/ ts_outcome' = Screenshot("element")
     \/ ts_outcome' = RemoteError("elementScreenshot")
  /\ ts_pc' = "finally"
  /\ UNCHANGED <<argVars, ignoreStyles, geomVars, loopVars, ts_result>>
  /\ UNCHANGED notShot

(* Lines 411-432: hasScrollBar, getScrollBarWidth, the tile geometry.      *)
CompositeEnter ==
  /\ ts_pc = "composite"
  /\ \/ /\ isScreenshotWithoutScrollBar' \in BOOLEAN
        /\ scrollBarWidth' \in
             IF windowRect = ScenarioWindow
             THEN ScenarioScrollBars
             ELSE {s \in 0..MaxSb : s < windowRect.width /\ s < windowRect.height}
        /\ row' = 0
        /\ col' = 0
        /\ screens' = <<>>
        /\ ts_pc' = "scroll"
        /\ UNCHANGED ts_outcome
     \/ /\ ts_outcome' = RemoteError("getScrollBarWidth")
        /\ ts_pc' = "finally"
        /\ UNCHANGED <<scrollBarWidth, isScreenshotWithoutScrollBar, row, col, screens>>
  /\ UNCHANGED <<argVars, ignoreStyles, windowRect, elementRect,
                 compositeImage, calls, ts_result>>
  /\ UNCHANGED notShot

(* Lines 444-450: window.scrollTo(dx, dy) for tile (row, col).             *)
CompositeScroll ==
  /\ ts_pc = "scroll"
  /\ calls' = Append(calls, Call("scrollTo",
                                 Dx(windowRect, elementRect, scrollBarWidth, col),
                                 Dy(windowRect, elementRect, scrollBarWidth, row)))
  /\ \/ /\ ts_pc' = "tile"
        /\ UNCHANGED ts_outcome
     \/ /\ ts_outcome' = RemoteError("scrollTo")
        /\ ts_pc' = "finally"
  /\ UNCHANGED <<argVars, ignoreStyles, geomVars, loopVars, ts_result>>
  /\ UNCHANGED notShot

(* Line 451 and the loop headers of lines 434-435; after the last tile the *)
(* output raster is allocated and filled (lines 455-479).                  *)
CompositeTile ==
  /\ ts_pc = "tile"
  /\ calls' = Append(calls, Call("takeScreenshot", 0, 0))
  /\ \/ /\ screens' = Append(screens,
                        [dx |-> Dx(windowRect, elementRect, scrollBarWidth, col),
                         dy |-> Dy(windowRect, elementRect, scrollBarWidth, row)])
        /\ IF col + 1 < Cols(windowRect, elementRect, scrollBarWidth)
           THEN /\ col' = col + 1
                /\ row' = row
                /\ ts_pc' = "scroll"
                /\ UNCHANGED <<compositeImage, ts_outcome>>
           ELSE IF row + 1 < Rows(windowRect, elementRect, scrollBarWidth)
           THEN /\ col' = 0
                /\ row' = row + 1
                /\ ts_pc' = "scroll"
                /\ UNCHANGED <<compositeImage, ts_outcome>>
           ELSE /\ col' = Cols(windowRect, elementRect, scrollBarWidth)
                /\ row' = Rows(windowRect, elementRect, scrollBarWidth)
                /\ compositeImage' = CompositeSize(elementRect)
                /\ ts_outcome' = Screenshot("composite")
                /\ ts_pc' = "finally"
     \/ /\ ts_outcome' = RemoteError("takeScreenshot")
        /\ ts_pc' = "finally"
        /\ UNCHANGED loopVars
  /\ UNCHANGED <<argVars, ignoreStyles, geomVars, ts_result>>
  /\ UNCHANGED notShot

(* removeIgnoreStyles (lines 708-714), as a bug would have it: cleanup     *)
(* only when the capture succeeded.                                        *)
RemoveOnSuccessOnly ==
  /\ ts_pc = "finally"
  /\ calls' = IF ignoreStyles # "null" /\ ts_outcome.kind # "error"
              THEN Append(calls, Call("remove", 0, 0))
              ELSE calls
  /\ ts_result' = ts_outcome
  /\ ts_pc' = "done"
  /\ UNCHANGED <<argVars, ignoreStyles, geomVars, loopVars, ts_outcome>>
  /\ UNCHANGED notShot

(* The finally block (lines 535-537) and the return of line 539.           *)
RemoveIgnoreStyles ==
  /\ ts_pc = "finally"
  /\ calls' = IF ignoreStyles # "null"
              THEN Append(calls, Call("remove", 0, 0))
              ELSE calls
  /\ ts_result' = ts_outcome
  /\ ts_pc' = "done"
  /\ UNCHANGED <<argVars, ignoreStyles, geomVars, loopVars, ts_outcome>>
  /\ UNCHANGED notShot

----------------------------------------------------------------------------
(* openStorybookPage, resolveStorybookUrl, getUrlChecker and               *)
(* openUrlAndWaitForPageSource (lines 236-293 and 576-603).                *)

DOCKER_INTERNAL == "host.docker.internal"

(* A page source is one of five texts, told apart by what the code tests.  *)
(*   ""      nothing yet                                                   *)
(*   "head"  <html><head></head></html>                                    *)
(*   "blank" <html><head></head><body></body></html>                       *)
(*   "other" a body with content and no <div id="root"></div>              *)
(*   "root"  a body holding <div id="root"></div>                          *)
IncludesEmptyBody(src) == src = "blank"           \* includes('<body></body>')
HasBodyContent(src) == src \in {"other", "root"}  \* /<body([^>]*>).+<\/body>/s
IncludesRootDiv(src) == src = "root"              \* includes('<div id="root"></div>')

(* The loop conditions of the two polls (lines 276 and 281).               *)
BlankPredicate(src) == ~IncludesEmptyBody(src)
UrlPredicate(src) == src = "" \/ ~HasBodyContent(src)

(* LOCALHOST_REGEXP.test(storybookUrl).                                    *)
IsLocalhost(host) == host \in {"localhost", "127.0.0.1"}

(* appendIframePath, and storybookUrl.replace(LOCALHOST_REGEXP, ip).       *)
IframeUrl(host) == [host |-> host, path |-> "/iframe.html"]
ResolvedUrl(host, ip) == IF IsLocalhost(host) THEN IframeUrl(ip) ELSE IframeUrl(host)
AboutBlank == [host |-> "about:blank", path |-> ""]

RECURSIVE Flatten(_)
Flatten(ss) == IF ss = <<>> THEN <<>> ELSE Head(ss) \o Flatten(Tail(ss))

IPv4Of(network) ==
  LET kept == SelectSeq(network, LAMBDA info : info.family = "IPv4")
  IN  [i \in 1..Len(kept) |-> kept[i].address]

(* The candidate order as a bug would have it: the alias tried last.       *)
AddressesAliasLast(nets) ==
  Flatten([n \in 1..Len(nets) |-> IPv4Of(nets[n])]) \o <<DOCKER_INTERNAL>>

(* Lines 239-243.                                                          *)
Addresses(nets) ==
  <<DOCKER_INTERNAL>> \o Flatten([n \in 1..Len(nets) |-> IPv4Of(nets[n])])

(* What the environment can be.                                            *)
Infos ==
  {[family |-> "IPv4", address |-> "172.17.0.1"],
   [family |-> "IPv4", address |-> "192.168.1.5"],
   [family |-> "IPv6", address |-> "fe80::1"]}
SeqsUpTo(S, n) == UNION {[1..k -> S] : k \in 0..n}
IsInjective(f) == \A i, j \in DOMAIN f : f[i] = f[j] => i = j
NetworkConfigs ==
  {nets \in SeqsUpTo(SeqsUpTo(Infos, MaxInfos), MaxNets) : IsInjective(Flatten(nets))}
CandidateHosts == {DOCKER_INTERNAL, "172.17.0.1", "192.168.1.5"}
StorybookHosts == {"localhost", "storybook.example.com"}
ResolverHosts == {"10.0.0.7"}

NoResult == [kind |-> "none", name |-> "", host |-> ""]
Opened(host) == [kind |-> "ok", name |-> "", host |-> host]
Failed(name) == [kind |-> "error", name |-> name, host |-> ""]

InitResolve ==
  /\ rs_pc = "open"
  /\ storybookUrl \in StorybookHosts
  /\ hasResolver \in BOOLEAN
  /\ networks \in NetworkConfigs
  /\ pages \in [CandidateHosts -> {"root", "other"}]
  /\ rs_idx = 0
  /\ source = ""
  /\ gets = <<>>
  /\ checked = <<>>
  /\ rs_result = NoResult

envVars == <<storybookUrl, hasResolver, networks, pages>>
Candidate == Addresses(networks)[rs_idx]

(* Lines 585-594: the three ways of opening the page.                      *)
OpenStorybookPage ==
  /\ rs_pc = "open"
  /\ IF ~IsLocalhost(storybookUrl)
     THEN /\ gets' = Append(gets, IframeUrl(storybookUrl))
          /\ rs_result' \in {Opened(storybookUrl), Failed("WebDriverError")}
          /\ rs_pc' = "done"
          /\ UNCHANGED rs_idx
     ELSE IF hasResolver
     THEN \/ \E h \in ResolverHosts :
               /\ gets' = Append(gets, IframeUrl(h))
               /\ rs_result' \in {Opened(h), Failed("WebDriverError")}
               /\ rs_pc' = "done"
               /\ UNCHANGED rs_idx
          \/ /\ rs_result' = Failed("ResolverError")
             /\ rs_pc' = "done"
             /\ UNCHANGED <<gets, rs_idx>>
     ELSE /\ rs_idx' = 1
          /\ rs_pc' = "getBlank"
          /\ UNCHANGED <<gets, rs_result>>
  /\ UNCHANGED <<envVars, source, checked>>
  /\ UNCHANGED notResolve

(* checkUrl has answered ok for the current candidate: the loop of lines   *)
(* 244-249 returns it, moves on, or runs out and throws ResolveUrlError.   *)
Answer(ok) ==
  /\ checked' = Append(checked, [host |-> Candidate, ok |-> ok])
  /\ IF ok
     THEN /\ rs_result' = Opened(Candidate)
          /\ rs_pc' = "done"
          /\ UNCHANGED rs_idx
     ELSE IF rs_idx < Len(Addresses(networks))
     THEN /\ rs_idx' = rs_idx + 1
          /\ rs_pc' = "getBlank"
          /\ UNCHANGED rs_result
     ELSE /\ rs_result' = Failed("ResolveUrlError")
          /\ rs_pc' = "done"
          /\ UNCHANGED rs_idx

(* Line 276 and its browser.get('about:blank') (lines 260-261).            *)
GetBlank ==
  /\ rs_pc = "getBlank"
  /\ gets' = Append(gets, AboutBlank)
  /\ \/ /\ source' = ""
        /\ rs_pc' = "pollBlank"
        /\ UNCHANGED <<rs_idx, checked, rs_result>>
     \/ /\ Answer(FALSE)
        /\ UNCHANGED source
  /\ UNCHANGED envVars
  /\ UNCHANGED notResolve

(* One round of the do/while of lines 262-268 on about:blank.  A rejected  *)
(* getPageSource leaves source as it was.                                  *)
PollBlank ==
  /\ rs_pc = "pollBlank"
  /\ \/ source' \in {"", "other", "blank"}
     \/ source' = source
  /\ rs_pc' = IF BlankPredicate(source') THEN "pollBlank" ELSE "getUrl"
  /\ UNCHANGED <<envVars, rs_idx, gets, checked, rs_result>>
  /\ UNCHANGED notResolve

(* Lines 277-279: browser.get(url) of the candidate.                       *)
GetUrl ==
  /\ rs_pc = "getUrl"
  /\ gets' = Append(gets, ResolvedUrl(storybookUrl, Candidate))
  /\ \/ /\ source' = ""
        /\ rs_pc' = "pollUrl"
        /\ UNCHANGED <<rs_idx, checked, rs_result>>
     \/ /\ Answer(FALSE)
        /\ UNCHANGED source
  /\ UNCHANGED envVars
  /\ UNCHANGED notResolve

(* One round of the do/while on the candidate, and line 288 once it ends.  *)
PollUrl ==
  /\ rs_pc = "pollUrl"
  /\ \/ source' \in {"", "head", "blank", pages[Candidate]}
     \/ source' = source
  /\ IF UrlPredicate(source')
     THEN UNCHANGED <<rs_pc, rs_idx, checked, rs_result>>
     ELSE Answer(IncludesRootDiv(source'))
  /\ UNCHANGED <<envVars, gets>>
  /\ UNCHANGED notResolve

NextResolve ==
  \/ OpenStorybookPage
  \/ GetBlank
  \/ PollBlank
  \/ GetUrl
  \/ PollUrl

----------------------------------------------------------------------------
(* getBrowser (lines 605-657).  An action runs from the settling of one    *)
(* remote call to the start of the next: code between two awaits is not    *)
(* interleaved with the shutdown listener.                                 *)

(* The sequence of lines 634-637 with the page opened before the resize    *)
(* (a mutant).                                                             *)
StepNamesOpenFirst == <<"setTimeouts", "openStorybookPage", "resizeViewport", "waitForStorybook">>

(* The sequence handed to runSequence (lines 634-637).                     *)
StepNames == <<"setTimeouts", "resizeViewport", "openStorybookPage", "waitForStorybook">>
NumSteps == Len(StepNames)

(* How getBrowser completed.  An error is told by its name, and its stack  *)
(* by the name of the error the stack was taken for.                       *)
Returned(value) == [kind |-> "returned", value |-> value, name |-> "", stack |-> ""]
Threw(name) == [kind |-> "threw", value |-> "", name |-> name, stack |-> name]
Running == [kind |-> "none", value |-> "", name |-> "", stack |-> ""]

(* Lines 647-649: the error whose message ends with `url` and whose stack  *)
(* is the stack of the caught error `original`.                            *)
Wrapped(url, original) ==
  [kind |-> "threw", value |-> url,
   name |-> "Can't load storybook root page by URL", stack |-> original]

InitBrowser ==
  /\ gb_pc = "build"
  /\ browser = "null"
  /\ shuttingDown = FALSE
  /\ session = "none"
  /\ viewport \in BOOLEAN
  /\ storybookGlobals \in BOOLEAN
  /\ versionLessThan6 \in BOOLEAN
  /\ shutdownAt = "never"
  /\ gb_steps = <<>>
  /\ gb_error = ""
  /\ gb_result = Running

gbConfig == <<viewport, storybookGlobals, versionLessThan6>>

(* runSequence(seq, predicate): before each step the predicate is asked,   *)
(* and a step is called only when it answers true.                         *)
RunSequenceCalls(predicate) == predicate

(* The closures of lines 634-637 for step i and browser b: whether the     *)
(* step issues remote calls.                                               *)
StepActs(i, b) ==
  CASE i = 1 -> b # "null"
    [] i = 2 -> viewport /\ b # "null"
    [] i = 3 -> b # "null"
    [] i = 4 -> b # "null"

(* The first step from i on that runSequence calls and that suspends;      *)
(* NumSteps + 1 when the sequence runs to its end.  Line 639 is the        *)
(* predicate.                                                              *)
FirstCall(i, b) ==
  LET called == {j \in i..NumSteps : RunSequenceCalls(~shuttingDown) /\ StepActs(j, b)}
  IN  IF called = {} THEN NumSteps + 1
      ELSE CHOOSE j \in called : \A k \in called : j <= k

(* Lines 652-656 and updateStorybookGlobals (lines 564-574), with browser  *)
(* b: return, start the globals update, or fail on a null browser.         *)
AfterSequence(b) ==
  IF storybookGlobals /\ ~versionLessThan6
  THEN IF b = "null"
       THEN /\ gb_pc' = "done"
            /\ gb_result' = Threw("TypeError")
            /\ UNCHANGED gb_steps
       ELSE /\ gb_pc' = "updateGlobals"
            /\ gb_steps' = Append(gb_steps, [step |-> "updateGlobals", late |-> shuttingDown])
            /\ UNCHANGED gb_result
  ELSE /\ gb_pc' = "done"
       /\ gb_result' = Returned(b)
       /\ UNCHANGED gb_steps

(* runSequence resumed at step i with browser b.                           *)
Continue(i, b) ==
  IF FirstCall(i, b) <= NumSteps
  THEN /\ gb_pc' = StepNames[FirstCall(i, b)]
       /\ gb_steps' = Append(gb_steps, [step |-> StepNames[FirstCall(i, b)],
                                        late |-> shuttingDown])
       /\ UNCHANGED gb_result
  ELSE AfterSequence(b)

(* The catch block as it would be without line 646: every error wrapped.   *)
CatchWrapsAll(name) ==
  /\ gb_error' = name
  /\ IF shuttingDown
     THEN /\ session' = IF browser # "null" THEN "quit" ELSE session
          /\ gb_pc' = "done"
          /\ gb_result' = Returned("null")
     ELSE IF browser # "null"
     THEN /\ UNCHANGED session
          /\ gb_pc' = "getCurrentUrl"
          /\ UNCHANGED gb_result
     ELSE /\ UNCHANGED session
          /\ gb_pc' = "done"
          /\ gb_result' = Wrapped("realAddress", name)

(* The catch block (lines 641-650) entered with error `name`.              *)
Catch(name) ==
  /\ gb_error' = name
  /\ IF shuttingDown
     THEN /\ session' = IF browser # "null" THEN "quit" ELSE session
          /\ gb_pc' = "done"
          /\ gb_result' = Returned("null")
     ELSE IF name = "ResolveUrlError"
     THEN /\ UNCHANGED session
          /\ gb_pc' = "done"
          /\ gb_result' = Threw("ResolveUrlError")
     ELSE IF browser # "null"
     THEN /\ UNCHANGED session
          /\ gb_pc' = "getCurrentUrl"
          /\ UNCHANGED gb_result
     ELSE /\ UNCHANGED session
          /\ gb_pc' = "done"
          /\ gb_result' = Wrapped("realAddress", name)

(* The shutdown listener (lines 623-627).                                  *)
ShutdownListener ==
  /\ shutdownAt = "never"
  /\ shutdownAt' = gb_pc
  /\ shuttingDown' = TRUE
  /\ session' = IF browser # "null" THEN "quit" ELSE session
  /\ browser' = "null"
  /\ UNCHANGED <<gb_pc, gbConfig, gb_steps, gb_error, gb_result>>
  /\ UNCHANGED notBrowser

(* Line 630 settles: the session exists and is assigned, or build failed.  *)
BuildSettles ==
  /\ gb_pc = "build"
  /\ \/ /\ browser' = "session"
        /\ session' = "live"
        /\ Continue(1, "session")
        /\ UNCHANGED gb_error
     \/ /\ Catch("WebDriverError")
        /\ UNCHANGED <<browser, gb_steps>>
  /\ UNCHANGED <<shuttingDown, gbConfig, shutdownAt>>
  /\ UNCHANGED notBrowser

(* The remote calls of step i settle (lines 632-640).                      *)
StepSettles(i) ==
  /\ gb_pc = StepNames[i]
  /\ \/ /\ Continue(i + 1, browser)
        /\ UNCHANGED <<session, gb_error>>
     \/ /\ \E name \in IF i = 3 THEN {"ResolveUrlError", "WebDriverError"}
                       ELSE {"WebDriverError"} : Catch(name)
        /\ UNCHANGED gb_steps
  /\ UNCHANGED <<browser, shuttingDown, gbConfig, shutdownAt>>
  /\ UNCHANGED notBrowser

(* Line 647: browser.getCurrentUrl() settles: the wrapped error is thrown, *)
(* or the rejection of getCurrentUrl leaves the catch block in its place.  *)
CurrentUrlSettles ==
  /\ gb_pc = "getCurrentUrl"
  /\ gb_pc' = "done"
  /\ gb_result' \in {Wrapped("currentUrl", gb_error), Threw("WebDriverError")}
  /\ UNCHANGED <<browser, shuttingDown, session, gbConfig, shutdownAt, gb_steps, gb_error>>
  /\ UNCHANGED notBrowser

(* Lines 653-656: the globals update settles.                              *)
GlobalsSettle ==
  /\ gb_pc = "updateGlobals"
  /\ gb_pc' = "done"
  /\ gb_result' \in {Returned(browser), Threw("WebDriverError")}
  /\ UNCHANGED <<browser, shuttingDown, session, gbConfig, shutdownAt, gb_steps, gb_error>>
  /\ UNCHANGED notBrowser

NextBrowser ==
  \/ ShutdownListener
  \/ BuildSettles
  \/ \E i \in 1..NumSteps : StepSettles(i)
  \/ CurrentUrlSettles
  \/ GlobalsSettle

----------------------------------------------------------------------------
(* The master process: the default export of master/index.ts (lines        *)
(* 57-112) and the fatal-error handler of creevey.ts (lines 9-22).  An     *)
(* action is one event-loop callback together with the promise reactions   *)
(* it triggers.                                                            *)

TestIds == 1..MaxTests
Statuses == {"unknown", "pending", "running", "failed", "success"}
Undefined == [defined |-> FALSE, skip |-> FALSE, status |-> "unknown"]
Test(skip, status) == [defined |-> TRUE, skip |-> skip, status |-> status]
Registries == [TestIds -> {Undefined} \cup {Test(sk, "unknown") : sk \in BOOLEAN}]

(* process.exitCode before anything assigned it.                           *)
UnsetExitCode == [set |-> FALSE, code |-> 0]
ExitCode(n) == [set |-> TRUE, code |-> n]

(* Line 91: the tests that are defined and not skipped.                    *)
Runnable(ts) == {t \in DOMAIN ts : ts[t].defined /\ ~ts[t].skip}

(* Lines 98-102 as a bug would have it: skipped tests not filtered out.    *)
IsSuccessCountingSkipped(ts) ==
  \A t \in DOMAIN ts : ts[t].defined => ts[t].status = "success"

(* Lines 98-102.                                                           *)
IsSuccess(ts) ==
  \A t \in {u \in DOMAIN ts : ts[u].defined /\ ~ts[u].skip} : ts[t].status = "success"

(* shutdownWorkers(): raises the process-wide flag and tells every worker  *)
(* to shut down.                                                           *)
ShutdownWorkers(flag) == TRUE

InitMaster ==
  /\ m_pc = "boot"
  /\ ui \in BOOLEAN
  /\ runner = "null"
  /\ isRunning = FALSE
  /\ tests \in Registries
  /\ stopHandler = FALSE
  /\ races = <<>>
  /\ timers = <<>>
  /\ stopRequests = 0
  /\ shutdownCalls = <<>>
  /\ isShuttingDown = FALSE
  /\ exitCode = UnsetExitCode
  /\ exitPending = FALSE
  /\ exited = FALSE

raceVars == <<races, timers, stopRequests>>

(* The races that the 'stop' event or timer i settles now, each of which   *)
(* then calls shutdownWorkers() (line 70).                                 *)
Settle(rs, pending, by) ==
  [i \in DOMAIN rs |-> IF i \in pending THEN by ELSE rs[i]]
Pending(rs) == {i \in DOMAIN rs : rs[i] = "pending"}
Repeat(x, n) == [i \in 1..n |-> x]

(* Lines 77-111: master() and runner.init() have settled.                  *)
Boot ==
  /\ ~exited
  /\ m_pc = "boot"
  /\ runner' = "runner"
  /\ IF ui
     THEN /\ m_pc' = "serving"
          /\ UNCHANGED <<isRunning, stopHandler, shutdownCalls, isShuttingDown, exitPending>>
     ELSE IF Runnable(tests) = {}
     THEN /\ m_pc' = "finished"
          /\ shutdownCalls' = Append(shutdownCalls, "no tests")
          /\ isShuttingDown' = ShutdownWorkers(isShuttingDown)
          /\ exitPending' = TRUE
          /\ UNCHANGED <<isRunning, stopHandler>>
     ELSE /\ m_pc' = "started"
          /\ stopHandler' = TRUE
          /\ isRunning' = TRUE
          /\ UNCHANGED <<shutdownCalls, isShuttingDown, exitPending>>
  /\ UNCHANGED <<ui, tests, raceVars, exitCode, exited>>
  /\ UNCHANGED notMaster

(* The UI starts a run through the API.                                    *)
ApiStart ==
  /\ ~exited
  /\ m_pc = "serving"
  /\ ~isRunning
  /\ ~isShuttingDown
  /\ Runnable(tests) # {}
  /\ isRunning' = TRUE
  /\ UNCHANGED <<m_pc, ui, runner, tests, stopHandler, raceVars, shutdownCalls,
                 isShuttingDown, exitCode, exitPending, exited>>
  /\ UNCHANGED notMaster

(* A worker reports on a test of the active run.                           *)
TestUpdate ==
  /\ ~exited
  /\ isRunning
  /\ \E t \in Runnable(tests), st \in Statuses \ {"unknown"} :
        /\ tests[t].status # st
        /\ tests' = [tests EXCEPT ![t].status = st]
  /\ UNCHANGED <<m_pc, ui, runner, isRunning, stopHandler, raceVars, shutdownCalls,
                 isShuttingDown, exitCode, exitPending, exited>>
  /\ UNCHANGED notMaster

(* The SIGINT handler as a bug would have it: workers are shut down at     *)
(* once even though a run is active.                                       *)
SigintNoGrace ==
  /\ ~exited
  /\ Len(races) + Len(SelectSeq(shutdownCalls, LAMBDA c : c = "SIGINT idle")) < MaxSigint
  /\ IF runner # "null" /\ isRunning
     THEN /\ races' = Append(races, "pending")
          /\ timers' = Append(timers, "armed")
          /\ stopRequests' = stopRequests + 1
          /\ shutdownCalls' = Append(shutdownCalls, "SIGINT race")
          /\ isShuttingDown' = ShutdownWorkers(isShuttingDown)
     ELSE /\ shutdownCalls' = Append(shutdownCalls, "SIGINT idle")
          /\ isShuttingDown' = ShutdownWorkers(isShuttingDown)
          /\ UNCHANGED raceVars
  /\ UNCHANGED <<m_pc, ui, runner, isRunning, tests, stopHandler, exitCode,
                 exitPending, exited>>
  /\ UNCHANGED notMaster

(* The SIGINT handler (lines 64-75).                                       *)
Sigint ==
  /\ ~exited
  /\ Len(races) + Len(SelectSeq(shutdownCalls, LAMBDA c : c = "SIGINT idle")) < MaxSigint
  /\ IF runner # "null" /\ isRunning
     THEN /\ races' = Append(races, "pending")
          /\ timers' = Append(timers, "armed")
          /\ stopRequests' = stopRequests + 1
          /\ UNCHANGED <<shutdownCalls, isShuttingDown>>
     ELSE /\ shutdownCalls' = Append(shutdownCalls, "SIGINT idle")
          /\ isShuttingDown' = ShutdownWorkers(isShuttingDown)
          /\ UNCHANGED raceVars
  /\ UNCHANGED <<m_pc, ui, runner, isRunning, tests, stopHandler, exitCode,
                 exitPending, exited>>
  /\ UNCHANGED notMaster

(* The grace timer of race i fires (line 68); a race still pending is      *)
(* settled by it and its reaction calls shutdownWorkers() (line 70).       *)
GraceTimer(i) ==
  /\ ~exited
  /\ i \in DOMAIN timers
  /\ timers[i] = "armed"
  /\ timers' = [timers EXCEPT ![i] = "fired"]
  /\ IF races[i] = "pending"
     THEN /\ races' = [races EXCEPT ![i] = "timer"]
          /\ shutdownCalls' = Append(shutdownCalls, "SIGINT race")
          /\ isShuttingDown' = ShutdownWorkers(isShuttingDown)
     ELSE UNCHANGED <<races, shutdownCalls, isShuttingDown>>
  /\ UNCHANGED <<m_pc, ui, runner, isRunning, tests, stopHandler, stopRequests,
                 exitCode, exitPending, exited>>
  /\ UNCHANGED notMaster

(* The runner emits 'stop': the listener of lines 97-108 runs if it is     *)
(* registered, then the listeners of line 69 settle the pending races.     *)
RunnerStop ==
  /\ ~exited
  /\ isRunning
  /\ isRunning' = FALSE
  /\ stopHandler' = FALSE
  /\ races' = Settle(races, Pending(races), "stop")
  /\ exitCode' = IF stopHandler
                 THEN ExitCode(IF IsSuccess(tests) THEN 0 ELSE -1)
                 ELSE exitCode
  /\ exitPending' = (exitPending \/ stopHandler)
  /\ shutdownCalls' = shutdownCalls
                        \o (IF stopHandler THEN <<"stop listener">> ELSE <<>>)
                        \o Repeat("SIGINT race", Cardinality(Pending(races)))
  /\ isShuttingDown' = IF stopHandler \/ Pending(races) # {}
                       THEN ShutdownWorkers(isShuttingDown)
                       ELSE isShuttingDown
  /\ UNCHANGED <<m_pc, ui, runner, tests, timers, stopRequests, exited>>
  /\ UNCHANGED notMaster

(* shutdown(reason) of creevey.ts (lines 9-19) in the master.              *)
(* The handler as it would be without the early return of line 10.         *)
FatalErrorUnguarded ==
  /\ ~exited
  /\ isWorker => Len(emitted) < MaxFatal
  /\ exitCode' = ExitCode(-1)
  /\ emitted' = IF isWorker THEN Append(emitted, "error") ELSE emitted
  /\ IF ~isWorker /\ ~isShuttingDown
     THEN /\ shutdownCalls' = Append(shutdownCalls, "fatal error")
          /\ isShuttingDown' = ShutdownWorkers(isShuttingDown)
     ELSE UNCHANGED <<shutdownCalls, isShuttingDown>>
  /\ UNCHANGED <<m_pc, ui, runner, isRunning, tests, stopHandler, raceVars,
                 exitPending, exited, isWorker>>
  /\ UNCHANGED <<shotVars, resVars, gbVars, storyVars, poolVars>>

(* shutdown(reason) of creevey.ts (lines 9-19), the listener of            *)
(* uncaughtException and unhandledRejection, in a master or in a worker.   *)
FatalError ==
  /\ ~exited
  /\ isWorker => Len(emitted) < MaxFatal
  /\ IF isShuttingDown
     THEN UNCHANGED <<exitCode, emitted, shutdownCalls, isShuttingDown>>
     ELSE /\ exitCode' = ExitCode(-1)
          /\ emitted' = IF isWorker THEN Append(emitted, "error") ELSE emitted
          /\ IF ~isWorker /\ ~isShuttingDown
             THEN /\ shutdownCalls' = Append(shutdownCalls, "fatal error")
                  /\ isShuttingDown' = ShutdownWorkers(isShuttingDown)
             ELSE UNCHANGED <<shutdownCalls, isShuttingDown>>
  /\ UNCHANGED <<m_pc, ui, runner, isRunning, tests, stopHandler, raceVars,
                 exitPending, exited, isWorker>>
  /\ UNCHANGED <<shotVars, resVars, gbVars, storyVars, poolVars>>

(* A worker is told to shut down: the flag of server/utils is set.         *)
WorkerShutdown ==
  /\ isWorker
  /\ ~isShuttingDown
  /\ isShuttingDown' = TRUE
  /\ UNCHANGED <<m_pc, ui, runner, isRunning, tests, stopHandler, raceVars,
                 shutdownCalls, exitCode, exitPending, exited>>
  /\ UNCHANGED notMaster

(* Lines 94 and 107: the workers are gone, process.exit() runs.            *)
ProcessExit ==
  /\ ~exited
  /\ exitPending
  /\ exited' = TRUE
  /\ UNCHANGED <<m_pc, ui, runner, isRunning, tests, stopHandler, raceVars,
                 shutdownCalls, isShuttingDown, exitCode, exitPending>>
  /\ UNCHANGED notMaster

NextMaster ==
  \/ Boot
  \/ ApiStart
  \/ TestUpdate
  \/ Sigint
  \/ \E i \in 1..MaxSigint : GraceTimer(i)
  \/ RunnerStop
  \/ FatalError
  \/ ProcessExit

----------------------------------------------------------------------------
(* switchStory, selectStory and resolveCaptureElement (lines 395-404,      *)
(* 542-562 and 659-694).                                                   *)

HookAbsentMessage == "Creevey can't switch story"
Done == [kind |-> "ok", message |-> ""]
Error(message) == [kind |-> "error", message |-> message]
Switching == [kind |-> "none", message |-> ""]
Remote(op, answer) == [op |-> op, answer |-> answer]

(* Lines 401-403 (a mutant: one child captured as the whole container).    *)
ResolveCaptureElementRootOnly(n) ==
  IF n = 0 THEN "null" ELSE "#root"

(* Lines 401-403.                                                          *)
ResolveCaptureElement(n) ==
  IF n = 0 THEN "null"
  ELSE IF n = 1 THEN "#root > *"
  ELSE "#root"

(* `if (captureElement)` of line 683 and `if (errorMessage)` of line 561.  *)
Truthy(v) == v \notin {"undefined", "null", ""}

PinnedValues == {"undefined", "null", "", ".pinned"}
HookAnswers == {"undefined", "", "story not found"}

InitStory ==
  /\ sw_pc = "start"
  /\ context \in {"ok", "noCurrentTest", "noStory"}
  /\ hook \in BOOLEAN
  /\ hookAnswer \in HookAnswers
  /\ pinned \in PinnedValues
  /\ childrenCount \in 0..MaxChildren
  /\ sw_calls = <<>>
  /\ captureProperty = "previous"
  /\ boundTo = "previous"
  /\ sw_result = Switching

pageVars == <<context, hook, hookAnswer, pinned, childrenCount>>

(* Lines 683-693 with the capture selector c.                              *)
Rebind(c) ==
  /\ captureProperty' = IF Truthy(c) THEN "defined" ELSE "deleted"
  /\ boundTo' = c
  /\ sw_pc' = "done"
  /\ sw_result' = Done

(* switchStory throws `message`.                                           *)
Throw(message) ==
  /\ sw_pc' = "done"
  /\ sw_result' = Error(message)
  /\ UNCHANGED <<captureProperty, boundTo>>

(* Lines 659-678: the checks of the context, then resetMousePosition       *)
(* is called.                                                              *)
SwitchStory ==
  /\ sw_pc = "start"
  /\ IF context = "noCurrentTest" THEN Throw("context doesn't have 'currentTest' field")
     ELSE IF context = "noStory" THEN Throw("context doesn't have 'story' field")
     ELSE /\ sw_pc' = "resetMousePosition"
          /\ UNCHANGED <<captureProperty, boundTo, sw_result>>
  /\ UNCHANGED <<pageVars, sw_calls>>
  /\ UNCHANGED notStory

(* resetMousePosition (lines 304-339) settles; line 679 calls selectStory. *)
ResetMouseSettles ==
  /\ sw_pc = "resetMousePosition"
  /\ \/ /\ sw_calls' = Append(sw_calls, Remote("resetMousePosition", "resolved"))
        /\ sw_pc' = "selectStory"
        /\ UNCHANGED <<captureProperty, boundTo, sw_result>>
     \/ /\ sw_calls' = Append(sw_calls, Remote("resetMousePosition", "rejected"))
        /\ Throw("WebDriverError")
  /\ UNCHANGED pageVars
  /\ UNCHANGED notStory

(* What the in-page function of lines 548-555 passes to the callback.      *)
ScriptAnswer == IF hook THEN hookAnswer ELSE HookAbsentMessage

(* Line 681 after a selection that succeeded.                              *)
AfterSelect ==
  IF pinned = "undefined"
  THEN /\ sw_pc' = "resolveCaptureElement"
       /\ UNCHANGED <<captureProperty, boundTo, sw_result>>
  ELSE Rebind(pinned)

(* selectStory as it would be without line 561.                            *)
SelectStoryIgnoresAnswer ==
  /\ sw_pc = "selectStory"
  /\ \/ /\ sw_calls' = Append(sw_calls, Remote("executeAsyncScript", ScriptAnswer))
        /\ AfterSelect
     \/ /\ sw_calls' = Append(sw_calls, Remote("executeAsyncScript", "rejected"))
        /\ Throw("WebDriverError")
  /\ UNCHANGED pageVars
  /\ UNCHANGED notStory

(* selectStory (lines 542-562): executeAsyncScript settles.                *)
SelectStorySettles ==
  /\ sw_pc = "selectStory"
  /\ \/ /\ sw_calls' = Append(sw_calls, Remote("executeAsyncScript", ScriptAnswer))
        /\ IF Truthy(ScriptAnswer) THEN Throw(ScriptAnswer) ELSE AfterSelect
     \/ /\ sw_calls' = Append(sw_calls, Remote("executeAsyncScript", "rejected"))
        /\ Throw("WebDriverError")
  /\ UNCHANGED pageVars
  /\ UNCHANGED notStory

(* resolveCaptureElement (lines 395-404): executeScript settles.           *)
ResolveCaptureSettles ==
  /\ sw_pc = "resolveCaptureElement"
  /\ \/ /\ sw_calls' = Append(sw_calls, Remote("executeScript", "resolved"))
        /\ Rebind(ResolveCaptureElement(childrenCount))
     \/ /\ sw_calls' = Append(sw_calls, Remote("executeScript", "rejected"))
        /\ Throw("WebDriverError")
  /\ UNCHANGED pageVars
  /\ UNCHANGED notStory

NextStory ==
  \/ SwitchStory
  \/ ResetMouseSettles
  \/ SelectStorySettles
  \/ ResolveCaptureSettles

----------------------------------------------------------------------------
(* The scheduler of the master: the registry of tests, the assignment of   *)
(* tests to workers and the retry policy.                                  *)

WorkerIds == 1..MaxWorkers
Idle == 0
Entry(status, retries) == [status |-> status, retries |-> retries]

InitPool ==
  /\ maxRetries \in 0..MaxRetries
  /\ registry = [t \in TestIds |-> Entry("unknown", 0)]
  /\ assigned = [w \in WorkerIds |-> Idle]
  /\ crashes = 0

(* A failure of test t with every failure re-enqueued (a mutant).          *)
FailedAlwaysRetried(t) ==
  [registry EXCEPT ![t] = Entry("unknown", registry[t].retries + 1)]

(* A failure of test t: under the retry limit the retry count is           *)
(* incremented and the test is unassigned again, otherwise it is           *)
(* finalized as fail.                                                      *)
TestFailed(t) ==
  IF registry[t].retries < maxRetries
  THEN [registry EXCEPT ![t] = Entry("unknown", registry[t].retries + 1)]
  ELSE [registry EXCEPT ![t] = Entry("fail", registry[t].retries)]

(* An idle worker is given the next unassigned test.                       *)
Assign(w) ==
  /\ assigned[w] = Idle
  /\ \E t \in TestIds :
       /\ registry[t].status = "unknown"
       /\ \A u \in TestIds : registry[u].status = "unknown" => t <= u
       /\ registry' = [registry EXCEPT ![t].status = "running"]
       /\ assigned' = [assigned EXCEPT ![w] = t]
  /\ UNCHANGED <<maxRetries, crashes>>
  /\ UNCHANGED notPool

(* Worker w reports the success of its test.                               *)
ReportSuccess(w) ==
  /\ assigned[w] # Idle
  /\ registry' = [registry EXCEPT ![assigned[w]].status = "success"]
  /\ assigned' = [assigned EXCEPT ![w] = Idle]
  /\ UNCHANGED <<maxRetries, crashes>>
  /\ UNCHANGED notPool

(* Worker w reports the failure of its test.                               *)
ReportFailure(w) ==
  /\ assigned[w] # Idle
  /\ registry' = TestFailed(assigned[w])
  /\ assigned' = [assigned EXCEPT ![w] = Idle]
  /\ UNCHANGED <<maxRetries, crashes>>
  /\ UNCHANGED notPool

(* The process of worker w exits unexpectedly: its test, if any, counts    *)
(* as failed, and a new idle worker takes its place.                       *)
WorkerCrash(w) ==
  /\ crashes < MaxCrashes
  /\ crashes' = crashes + 1
  /\ registry' = IF assigned[w] # Idle THEN TestFailed(assigned[w]) ELSE registry
  /\ assigned' = [assigned EXCEPT ![w] = Idle]
  /\ UNCHANGED maxRetries
  /\ UNCHANGED notPool

NextPool ==
  \/ \E w \in WorkerIds : Assign(w)
  \/ \E w \in WorkerIds : ReportSuccess(w)
  \/ \E w \in WorkerIds : ReportFailure(w)
  \/ \E w \in WorkerIds : WorkerCrash(w)

----------------------------------------------------------------------------
(* The specifications: one per component, the others at rest.              *)

NextShot ==
  \/ InsertIgnoreStyles
  \/ FullViewportShot
  \/ MeasureElement
  \/ ElementShot
  \/ CompositeEnter
  \/ CompositeScroll
  \/ CompositeTile
  \/ RemoveIgnoreStyles

RestShot ==
  /\ ts_pc = "rest"
  /\ captureElement = ""
  /\ ignoreElements = <<>>
  /\ ignoreStyles = "null"
  /\ windowRect = NoRect
  /\ elementRect = NoRect
  /\ scrollBarWidth = 0
  /\ isScreenshotWithoutScrollBar = FALSE
  /\ row = 0
  /\ col = 0
  /\ screens = <<>>
  /\ compositeImage = [width |-> 0, height |-> 0]
  /\ calls = <<>>
  /\ ts_outcome = NoOutcome
  /\ ts_result = NoOutcome

RestResolve ==
  /\ rs_pc = "rest"
  /\ storybookUrl = "localhost"
  /\ hasResolver = FALSE
  /\ networks = <<>>
  /\ pages = [h \in CandidateHosts |-> "other"]
  /\ rs_idx = 0
  /\ source = ""
  /\ gets = <<>>
  /\ checked = <<>>
  /\ rs_result = NoResult

RestBrowser ==
  /\ gb_pc = "rest"
  /\ browser = "null"
  /\ shuttingDown = FALSE
  /\ session = "none"
  /\ viewport = FALSE
  /\ storybookGlobals = FALSE
  /\ versionLessThan6 = FALSE
  /\ shutdownAt = "never"
  /\ gb_steps = <<>>
  /\ gb_error = ""
  /\ gb_result = Running

RestMaster ==
  /\ m_pc = "rest"
  /\ ui = FALSE
  /\ runner = "null"
  /\ isRunning = FALSE
  /\ tests = [t \in TestIds |-> Undefined]
  /\ stopHandler = FALSE
  /\ races = <<>>
  /\ timers = <<>>
  /\ stopRequests = 0
  /\ shutdownCalls = <<>>
  /\ isShuttingDown = FALSE
  /\ exitCode = UnsetExitCode
  /\ exitPending = FALSE
  /\ exited = FALSE

RestStory ==
  /\ sw_pc = "rest"
  /\ context = "ok"
  /\ hook = FALSE
  /\ hookAnswer = "undefined"
  /\ pinned = "undefined"
  /\ childrenCount = 0
  /\ sw_calls = <<>>
  /\ captureProperty = "previous"
  /\ boundTo = "previous"
  /\ sw_result = Switching

RestRole ==
  /\ isWorker = FALSE
  /\ emitted = <<>>

RestPool ==
  /\ maxRetries = 0
  /\ registry = [t \in TestIds |-> Entry("unknown", 0)]
  /\ assigned = [w \in WorkerIds |-> Idle]
  /\ crashes = 0

(* takeScreenshot, called once with any arguments.                         *)
InitSpecShot == InitShot /\ RestResolve /\ RestBrowser /\ RestMaster /\ RestStory /\ RestRole /\ RestPool
SpecShot == InitSpecShot /\ [][NextShot]_vars

(* openStorybookPage, called once in any environment.                      *)
InitSpecResolve == RestShot /\ InitResolve /\ RestBrowser /\ RestMaster /\ RestStory /\ RestRole /\ RestPool
SpecResolve == InitSpecResolve /\ [][NextResolve]_vars

(* getBrowser, called once, with the shutdown event arriving at any time.  *)
InitSpecBrowser == RestShot /\ RestResolve /\ InitBrowser /\ RestMaster /\ RestStory /\ RestRole /\ RestPool
SpecBrowser == InitSpecBrowser /\ [][NextBrowser]_vars

(* The master process from start to exit.                                  *)
InitSpecMaster == RestShot /\ RestResolve /\ RestBrowser /\ InitMaster /\ RestStory /\ RestRole /\ RestPool
SpecMaster == InitSpecMaster /\ [][NextMaster]_vars

(* A process of the cluster, the master or a worker, in which the handler  *)
(* of creevey.ts is registered.                                            *)
InitSpecProcess ==
  /\ RestShot /\ RestResolve /\ RestBrowser /\ RestStory /\ RestPool
  /\ emitted = <<>>
  /\ \/ isWorker = FALSE /\ InitMaster
     \/ isWorker = TRUE /\ RestMaster
NextProcess ==
  \/ ~isWorker /\ NextMaster
  \/ isWorker /\ FatalError
  \/ WorkerShutdown
SpecProcess == InitSpecProcess /\ [][NextProcess]_vars

(* The scheduler running the registry to its end with any retry limit.    *)
InitSpecPool ==
  RestShot /\ RestResolve /\ RestBrowser /\ RestMaster /\ RestStory /\ RestRole /\ InitPool
SpecPool == InitSpecPool /\ [][NextPool]_vars

(* switchStory, called once on any page.                                   *)
InitSpecStory == RestShot /\ RestResolve /\ RestBrowser /\ RestMaster /\ InitStory /\ RestRole /\ RestPool
SpecStory == InitSpecStory /\ [][NextStory]_vars

----------------------------------------------------------------------------
(* getBrowser with its third step played by openStorybookPage: the step    *)
(* of line 636 runs the page opening of lines 580-603 on the session that  *)
(* the shutdown listener may quit.  A remote call issued on a session that *)
(* has been quit is rejected.                                              *)

SessionLost == session = "quit"
InOpenStep == gb_pc = StepNames[3]

(* Line 636 calling openStorybookPage (lines 585-594).                     *)
SessionOpen ==
  /\ InOpenStep
  /\ OpenStorybookPage
  /\ SessionLost => rs_result'.kind # "ok"

(* Lines 260-261 on about:blank.                                           *)
SessionGetBlank ==
  /\ InOpenStep
  /\ GetBlank
  /\ SessionLost => rs_pc' # "pollBlank"

(* Lines 262-268 on about:blank.                                           *)
SessionPollBlank ==
  /\ InOpenStep
  /\ PollBlank
  /\ SessionLost => source' = source

(* Lines 260-261 on the candidate.                                         *)
SessionGetUrl ==
  /\ InOpenStep
  /\ GetUrl
  /\ SessionLost => rs_pc' # "pollUrl"

(* Lines 262-268 on the candidate.                                         *)
SessionPollUrl ==
  /\ InOpenStep
  /\ PollUrl
  /\ SessionLost => source' = source

(* openStorybookPage has settled: runSequence goes on to step 4, or the    *)
(* catch block of lines 641-650 receives what openStorybookPage threw.     *)
OpenSettles ==
  /\ InOpenStep
  /\ rs_pc = "done"
  /\ IF rs_result.kind = "ok"
     THEN /\ Continue(4, browser)
          /\ UNCHANGED <<session, gb_error>>
     ELSE /\ Catch(rs_result.name)
          /\ UNCHANGED gb_steps
  /\ UNCHANGED <<browser, shuttingDown, gbConfig, shutdownAt>>
  /\ UNCHANGED notBrowser

(* The shutdown event is a message: it is not delivered between the        *)
(* settling of openStorybookPage and the reaction of getBrowser to it.     *)
SessionShutdown ==
  /\ ~(InOpenStep /\ rs_pc = "done")
  /\ ShutdownListener

NextSession ==
  \/ SessionShutdown
  \/ BuildSettles
  \/ \E i \in {1, 2, 4} : StepSettles(i)
  \/ SessionOpen
  \/ SessionGetBlank
  \/ SessionPollBlank
  \/ SessionGetUrl
  \/ SessionPollUrl
  \/ OpenSettles
  \/ CurrentUrlSettles
  \/ GlobalsSettle

(* getBrowser opening the page of any environment.                         *)
InitSpecSession == RestShot /\ InitResolve /\ InitBrowser /\ RestMaster /\ RestStory /\ RestRole /\ RestPool
SpecSession == InitSpecSession /\ [][NextSession]_vars

----------------------------------------------------------------------------
(* Properties of takeScreenshot.                                           *)

ScreenshotOps == {"takeScreenshot", "elementScreenshot"}
ShotCount(log) == Cardinality({i \in 1..Len(log) : log[i].op \in ScreenshotOps})
Measured == elementRect # NoRect

(* C5: when ignore selectors are given and the ignore style was inserted,  *)
(* the style is removed exactly once before takeScreenshot completes, on   *)
(* every exit path, never more than once and never before it was inserted, *)
(* and the insertion precedes the first screenshot call.                   *)
Thm_C5_IgnoreStyleCleanup ==
  /\ CountOp(calls, "remove") <= 1
  /\ CountOp(calls, "insert") <= 1
  /\ CountOp(calls, "remove") = 1 => FirstOp(calls, "insert") = 1
  /\ (ignoreStyles # "null") = (CountOp(calls, "insert") = 1)
  /\ (ts_pc = "done" /\ ignoreStyles # "null") =>
        /\ CountOp(calls, "remove") = 1
        /\ calls[Len(calls)].op = "remove"
  /\ (ts_pc # "done" /\ ts_pc # "start") => CountOp(calls, "remove") = 0
  /\ \A i \in 1..Len(calls) :
        (calls[i].op \in ScreenshotOps /\ Len(IgnoreSelectors(ignoreElements)) > 0) =>
           /\ FirstOp(calls, "insert") = 1
           /\ i > 1

(* A composite capture that failed after its first tile, with the style    *)
(* inserted and then removed.                                              *)
Wit_C5_CleanupAfterFailure ==
  /\ ts_pc = "done"
  /\ ignoreStyles = "style"
  /\ ts_result = RemoteError("takeScreenshot")
  /\ Len(screens) > 0
  /\ CountOp(calls, "remove") = 1

(* C6: exactly one capture path is taken: no selector, one full-viewport   *)
(* screenshot; an element lying inside the viewport, one direct element    *)
(* screenshot and no composite capture; otherwise composite capture.       *)
Thm_C6_OneCapturePath ==
  /\ captureElement = "" => CountOp(calls, "takeScreenshot") <= 1
  /\ (captureElement = "" /\ ts_outcome # NoOutcome) =>
        /\ CountOp(calls, "takeScreenshot") = 1
        /\ CountOp(calls, "elementScreenshot") = 0
        /\ CountOp(calls, "scrollTo") = 0
        /\ CountOp(calls, "measure") = 0
        /\ ts_outcome \in {Screenshot("viewport"), RemoteError("takeScreenshot")}
  /\ (Measured /\ elementRect.left + elementRect.width <= windowRect.width
               /\ elementRect.top + elementRect.height <= windowRect.height) =>
        /\ ts_pc \in {"element", "finally", "done"}
        /\ CountOp(calls, "takeScreenshot") = 0
        /\ CountOp(calls, "scrollTo") = 0
        /\ screens = <<>>
        /\ ts_pc \in {"finally", "done"} =>
              /\ CountOp(calls, "elementScreenshot") = 1
              /\ ts_outcome \in {Screenshot("element"), RemoteError("elementScreenshot")}
  /\ (Measured /\ ~(/\ elementRect.left + elementRect.width <= windowRect.width
                    /\ elementRect.top + elementRect.height <= windowRect.height)) =>
        /\ ts_pc \in {"composite", "scroll", "tile", "finally", "done"}
        /\ CountOp(calls, "elementScreenshot") = 0
        /\ ts_outcome.kind = "screenshot" => ts_outcome = Screenshot("composite")
        /\ ts_outcome = Screenshot("composite") =>
              CountOp(calls, "takeScreenshot") = Len(screens)

(* An element that fits horizontally but not vertically, captured as a     *)
(* composite.                                                              *)
Wit_C6_CompositeChosen ==
  /\ ts_pc = "done"
  /\ ts_result = Screenshot("composite")
  /\ elementRect.left + elementRect.width <= windowRect.width
  /\ elementRect.top + elementRect.height > windowRect.height

(* C7: for viewport 800x600, scrollbar width 15 and an element of 1600x600 *)
(* at the page origin, composite capture computes cols = 2, rows = 1 and a *)
(* tile width of 800, and allocates a raster of exactly 1600x600.          *)
Cex_C7_ScenarioTiling ==
  (/\ windowRect = ScenarioWindow
   /\ elementRect = ScenarioElement
   /\ scrollBarWidth = 15
   /\ ts_outcome = Screenshot("composite")) =>
      /\ Cols(windowRect, elementRect, scrollBarWidth) = 2
      /\ Rows(windowRect, elementRect, scrollBarWidth) = 1
      /\ ViewportWidth(windowRect, elementRect, scrollBarWidth) = 800
      /\ Len(screens) = 2
      /\ compositeImage = [width |-> 1600, height |-> 600]

(* C8: for an element whose width and height are k times the tile width    *)
(* and height, the destination pixels of the composite read every page     *)
(* pixel of the element exactly once: none missing, none duplicated.       *)
(* Stated for elements that start at or after the page origin, where every *)
(* scroll target is one the page can take.                                 *)
DestPixels == (0..(compositeImage.width - 1)) \X (0..(compositeImage.height - 1))
ElementPixels ==
  (elementRect.left..(elementRect.left + elementRect.width - 1))
    \X (elementRect.top..(elementRect.top + elementRect.height - 1))
(* The page pixel read for destination pixel p, when the tile captured at  *)
(* scroll target (dx, dy) shows page pixel (dx + px, dy + py) at tile      *)
(* pixel (px, py).                                                         *)
TileOf(p) == screens[ImageIndex(windowRect, elementRect, scrollBarWidth, p[1], p[2]) + 1]
PagePixel(p) ==
  <<TileOf(p).dx + SourcePx(windowRect, elementRect, scrollBarWidth,
                            isScreenshotWithoutScrollBar, p[1], p[2]),
    TileOf(p).dy + SourcePy(windowRect, elementRect, scrollBarWidth,
                            isScreenshotWithoutScrollBar, p[1], p[2])>>
IsExactMultiple ==
  \E k \in 1..MaxEl :
    /\ elementRect.width = k * ViewportWidth(windowRect, elementRect, scrollBarWidth)
    /\ elementRect.height = k * ViewportHeight(windowRect, elementRect, scrollBarWidth)

Cex_C8_ExactMultipleSeamless ==
  (/\ ts_outcome = Screenshot("composite")
   /\ IsExactMultiple
   /\ elementRect.left >= 0
   /\ elementRect.top >= 0) =>
      /\ {PagePixel(p) : p \in DestPixels} = ElementPixels
      /\ \A p, q \in DestPixels : PagePixel(p) = PagePixel(q) => p = q

(* C17: in every composite capture of an element that starts at or after   *)
(* the page origin, each destination pixel (x, y) is read from the tile    *)
(* pixel that shows page pixel (element.left + x, element.top + y).        *)
Cex_C17_PixelMapping ==
  (/\ ts_outcome = Screenshot("composite")
   /\ elementRect.left >= 0
   /\ elementRect.top >= 0) =>
      \A p \in DestPixels :
        PagePixel(p) = <<elementRect.left + p[1], elementRect.top + p[2]>>

(* C18: in a composite capture of an element that starts at or after the   *)
(* page origin, an axis on which the element fits the window is captured   *)
(* in one tile: one column when it fits horizontally, one row when it      *)
(* fits vertically.                                                        *)
Cex_C18_FittingAxisNotTiled ==
  (/\ ts_outcome = Screenshot("composite")
   /\ elementRect.left >= 0
   /\ elementRect.top >= 0) =>
      /\ elementRect.left + elementRect.width <= windowRect.width
           => /\ Cols(windowRect, elementRect, scrollBarWidth) = 1
              /\ \A i \in 1..Len(screens) : screens[i].dx = screens[1].dx
      /\ elementRect.top + elementRect.height <= windowRect.height
           => /\ Rows(windowRect, elementRect, scrollBarWidth) = 1
              /\ \A i \in 1..Len(screens) : screens[i].dy = screens[1].dy

(* C19: every scroll target issued by the composite capture is             *)
(* non-negative in both coordinates.                                       *)
Cex_C19_ScrollTargetsNonNegative ==
  \A i \in 1..Len(calls) :
    calls[i].op = "scrollTo" => calls[i].x >= 0 /\ calls[i].y >= 0

(* The scroll target of the k-th tile of a row-major capture.              *)
TileTarget(k) ==
  [dx |-> Dx(windowRect, elementRect, scrollBarWidth,
             (k - 1) % Cols(windowRect, elementRect, scrollBarWidth)),
   dy |-> Dy(windowRect, elementRect, scrollBarWidth,
             (k - 1) \div Cols(windowRect, elementRect, scrollBarWidth))]
ShotsUpTo(i) == Cardinality({j \in 1..i : calls[j].op = "takeScreenshot"})

(* The destination pixels on the border of a tile: the first and the last  *)
(* pixel column and row of every tile, where the tile index changes.       *)
IsBorder(v, size, extent) == v % size = 0 \/ v % size = size - 1 \/ v = extent - 1
BorderPixels ==
  {x \in 0..(compositeImage.width - 1) :
     IsBorder(x, ViewportWidth(windowRect, elementRect, scrollBarWidth),
              compositeImage.width)}
  \X
  {y \in 0..(compositeImage.height - 1) :
     IsBorder(y, ViewportHeight(windowRect, elementRect, scrollBarWidth),
              compositeImage.height)}

(* C22: in a composite capture every viewport screenshot directly follows  *)
(* the scroll to the target of the next tile in row-major order, and the   *)
(* tile it returns is stored as that next tile; a capture that succeeded   *)
(* holds rows * cols tiles, one per screenshot call, in row-major order;   *)
(* and the tile read for destination pixel (x, y) is the tile captured for *)
(* row y div tile height and column x div tile width, checked at the first *)
(* and last pixel of every tile column and row.                            *)
Thm_C22_RowMajorTiles ==
  /\ [][(captureElement # "" /\ Len(calls') = Len(calls) + 1
           /\ calls'[Len(calls')].op = "takeScreenshot") =>
          /\ calls # <<>>
          /\ calls[Len(calls)] = Call("scrollTo", TileTarget(Len(screens) + 1).dx,
                                                  TileTarget(Len(screens) + 1).dy)
          /\ screens' \in {screens, Append(screens, TileTarget(Len(screens) + 1))}]_vars
  /\ [][Len(screens') > Len(screens) =>
          /\ Len(calls') = Len(calls) + 1
          /\ calls'[Len(calls')].op = "takeScreenshot"]_vars
  /\ [](ts_outcome = Screenshot("composite") =>
          /\ Len(screens) = Rows(windowRect, elementRect, scrollBarWidth)
                              * Cols(windowRect, elementRect, scrollBarWidth)
          /\ ShotsUpTo(Len(calls)) = Len(screens)
          /\ \A k \in 1..Len(screens) : screens[k] = TileTarget(k)
          /\ \A p \in BorderPixels :
               TileOf(p) =
                 [dx |-> Dx(windowRect, elementRect, scrollBarWidth,
                            p[1] \div ViewportWidth(windowRect, elementRect, scrollBarWidth)),
                  dy |-> Dy(windowRect, elementRect, scrollBarWidth,
                            p[2] \div ViewportHeight(windowRect, elementRect, scrollBarWidth))])

(* C22 witness: a capture of two rows of two columns has succeeded.        *)
Wit_C22_TwoByTwo ==
  /\ ts_outcome = Screenshot("composite")
  /\ Rows(windowRect, elementRect, scrollBarWidth) = 2
  /\ Cols(windowRect, elementRect, scrollBarWidth) = 2
  /\ Len(screens) = 4
  /\ screens[2] # screens[3]

(* C24: in every composite capture of an element that starts at or after   *)
(* the page origin, each destination pixel is read from a captured tile    *)
(* and its source offset lies inside that tile's raster.                   *)
Cex_C24_SourceInsideTile ==
  (/\ ts_outcome = Screenshot("composite")
   /\ elementRect.left >= 0
   /\ elementRect.top >= 0) =>
      \A p \in DestPixels :
        /\ ImageIndex(windowRect, elementRect, scrollBarWidth, p[1], p[2])
             \in 0..(Len(screens) - 1)
        /\ SourceJ(windowRect, elementRect, scrollBarWidth,
                   isScreenshotWithoutScrollBar, p[1], p[2])
             \in 0..(TileRasterSize(windowRect, elementRect, scrollBarWidth,
                                    isScreenshotWithoutScrollBar) - 1)

----------------------------------------------------------------------------
(* Properties of getBrowser.                                               *)

(* C1: once the shutdown event has been delivered, at whatever moment of   *)
(* getBrowser, no session that getBrowser created is left live: when       *)
(* getBrowser has completed and shutdown has been delivered, the session   *)
(* has been quit.                                                          *)
Cex_C1_ShutdownQuitsEverySession ==
  (gb_pc = "done" /\ shutdownAt # "never") => session # "live"

(* C2: when the shutdown event fires before getBrowser returns, getBrowser *)
(* returns null, raises no error, and starts no open step (the four steps  *)
(* of the sequence and the globals update) after the flag was set.         *)
Cex_C2_AbortsCleanly ==
  (gb_pc = "done" /\ shutdownAt \notin {"never", "done"}) =>
      /\ gb_result = Returned("null")
      /\ \A i \in 1..Len(gb_steps) : ~gb_steps[i].late

----------------------------------------------------------------------------
(* Properties of the master process.                                       *)

CountCalls(site) == Len(SelectSeq(shutdownCalls, LAMBDA c : c = site))
CountCallsNext(site) == Len(SelectSeq(shutdownCalls', LAMBDA c : c = site))
Settled(by) == {i \in DOMAIN races : races[i] = by}
SignalsTaken == Len(races) + CountCalls("SIGINT idle")
SignalsTakenNext == Len(races') + CountCallsNext("SIGINT idle")

(* C3: a SIGINT taken while a run is active requests a cooperative stop    *)
(* and calls shutdownWorkers only when the runner's 'stop' event or the    *)
(* grace timer settles the race, whichever is first, and then it does call *)
(* it; a SIGINT taken while no run is active, or before the runner exists, *)
(* calls shutdownWorkers at once and does not call runner.stop.            *)
Thm_C3_SigintGrace ==
  [][/\ (SignalsTakenNext # SignalsTaken /\ runner # "null" /\ isRunning) =>
          /\ stopRequests' = stopRequests + 1
          /\ shutdownCalls' = shutdownCalls
          /\ Len(races') = Len(races) + 1
          /\ races'[Len(races')] = "pending"
     /\ (SignalsTakenNext # SignalsTaken /\ ~(runner # "null" /\ isRunning)) =>
          /\ stopRequests' = stopRequests
          /\ shutdownCalls' = Append(shutdownCalls, "SIGINT idle")
          /\ races' = races
     /\ CountCallsNext("SIGINT race") - CountCalls("SIGINT race")
          = Cardinality(Pending(races) \ Pending(races'))
     /\ \A i \in Pending(races) \ Pending(races') :
          \/ races'[i] = "stop" /\ isRunning /\ ~isRunning'
          \/ races'[i] = "timer" /\ timers[i] = "armed" /\ timers'[i] = "fired"
     /\ \A i \in DOMAIN races :
          /\ (isRunning /\ ~isRunning') => races'[i] # "pending"
          /\ (i \in DOMAIN timers /\ timers[i] = "armed" /\ timers'[i] = "fired") =>
                races'[i] # "pending"
    ]_vars

(* Two interrupts during active runs, one race settled by its grace timer  *)
(* and one by the 'stop' event, and each has called shutdownWorkers.       *)
Wit_C3_BothRacesSettled ==
  /\ Settled("timer") # {}
  /\ Settled("stop") # {}
  /\ CountCalls("SIGINT race") = 2

(* C4: when the runner emits 'stop' in non-UI mode, the exit code is set   *)
(* to 0 exactly when every defined, non-skipped test has status 'success', *)
(* and to a non-zero value otherwise.                                      *)
Thm_C4_ExitCodeOnStop ==
  [][(stopHandler /\ isRunning /\ ~isRunning') =>
        /\ exitCode'.set
        /\ (exitCode'.code = 0) =
             (\A t \in TestIds :
                 (tests[t].defined /\ ~tests[t].skip) => tests[t].status = "success")
        /\ exitCode'.code \in {0, -1}
    ]_vars

(* The run stopped with exit code 0 although a skipped test was not        *)
(* 'success'.                                                              *)
Wit_C4_SuccessDespiteSkipped ==
  /\ m_pc = "started"
  /\ ~isRunning
  /\ exitCode = ExitCode(0)
  /\ \E t \in TestIds : tests[t].defined /\ tests[t].skip /\ tests[t].status # "success"
  /\ \E t \in TestIds : tests[t].defined /\ ~tests[t].skip

----------------------------------------------------------------------------
(* Properties of the storybook URL resolution.                             *)

Enumerated == Flatten(networks)
PositionOf(seq, x) == CHOOSE i \in 1..Len(seq) : seq[i] = x
CandidateGets == {i \in 1..Len(gets) : gets[i] # AboutBlank}

(* C10: for a localhost URL and no resolver, the Docker-internal alias is  *)
(* tried first, then the local IPv4 addresses in enumeration order; a      *)
(* candidate URL is loaded only right after about:blank was loaded for it; *)
(* the result is the first candidate whose page showed the root container, *)
(* and no candidate after it is tried.                                     *)
Thm_C10_CandidateOrder ==
  (IsLocalhost(storybookUrl) /\ ~hasResolver /\ rs_pc # "rest") =>
      /\ Len(gets) > 0 => gets[1] = AboutBlank
      /\ Len(checked) > 0 => checked[1].host = "host.docker.internal"
      /\ \A i \in 1..Len(checked) :
            i > 1 =>
              /\ \E k \in 1..Len(Enumerated) :
                    Enumerated[k] = [family |-> "IPv4", address |-> checked[i].host]
              /\ \A j \in 2..(i - 1) :
                    PositionOf(Enumerated, [family |-> "IPv4", address |-> checked[j].host])
                      < PositionOf(Enumerated, [family |-> "IPv4", address |-> checked[i].host])
      /\ \A k \in 1..Len(Enumerated) :
            (Enumerated[k].family = "IPv4" /\ rs_result = Failed("ResolveUrlError")) =>
               \E i \in 2..Len(checked) : checked[i].host = Enumerated[k].address
      /\ \A i \in CandidateGets :
            /\ i > 1
            /\ gets[i - 1] = AboutBlank
            /\ gets[i].path = "/iframe.html"
      /\ \A i \in 1..Len(checked) : checked[i].ok => i = Len(checked)
      /\ (rs_pc = "done" /\ rs_result.kind = "ok") =>
            /\ Len(checked) > 0
            /\ checked[Len(checked)] = [host |-> rs_result.host, ok |-> TRUE]
            /\ pages[rs_result.host] = "root"
            /\ gets[Len(gets)] = [host |-> rs_result.host, path |-> "/iframe.html"]
      /\ \A i \in 1..Len(checked) :
            \E g \in 1..Len(gets) :
               /\ gets[g] = AboutBlank
               /\ Cardinality({h \in 1..g : gets[h] = AboutBlank}) = i

(* The alias and the first interface address failed the check and the      *)
(* second interface address was returned.                                  *)
Wit_C10_ThirdCandidate ==
  /\ rs_pc = "done"
  /\ rs_result = Opened("192.168.1.5")
  /\ Len(checked) = 3
  /\ checked[1] = [host |-> "host.docker.internal", ok |-> FALSE]
  /\ checked[2] = [host |-> "172.17.0.1", ok |-> FALSE]

----------------------------------------------------------------------------
(* Properties of getBrowser opening the page.                              *)

NoCandidatePassed ==
  /\ Len(checked) = Len(Addresses(networks))
  /\ \A i \in 1..Len(checked) : ~checked[i].ok
CaughtWhileRunning == shutdownAt \in {"never", "done"}
GenericError == "Can't load storybook root page by URL"

(* C11: when every candidate has failed the readiness check the page       *)
(* opening fails with ResolveUrlError, and only then; getBrowser, when it  *)
(* is not shutting down, throws that same error and never the generic      *)
(* "Can't load storybook root page" error in its place; a URL that is not  *)
(* localhost is fetched directly, with no about:blank and no candidate,    *)
(* and never gives ResolveUrlError.                                        *)
Thm_C11_ResolveUrlError ==
  /\ (rs_pc = "done" /\ IsLocalhost(storybookUrl) /\ ~hasResolver /\ NoCandidatePassed)
       => rs_result = Failed("ResolveUrlError")
  /\ rs_result = Failed("ResolveUrlError")
       => IsLocalhost(storybookUrl) /\ ~hasResolver /\ NoCandidatePassed
  /\ gb_error = "ResolveUrlError" => rs_result = Failed("ResolveUrlError")
  /\ (gb_pc = "done" /\ rs_result = Failed("ResolveUrlError") /\ CaughtWhileRunning)
       => gb_result = Threw("ResolveUrlError")
  /\ gb_error = "ResolveUrlError" => gb_result.name # GenericError
  /\ ~IsLocalhost(storybookUrl)
       => /\ rs_result.name # "ResolveUrlError"
          /\ gb_error # "ResolveUrlError"
          /\ checked = <<>>
          /\ \A i \in 1..Len(gets) : gets[i] = IframeUrl(storybookUrl)

(* C11 witness: two candidates failed the check and getBrowser, not        *)
(* shutting down, has thrown ResolveUrlError.                              *)
Wit_C11_ResolveUrlErrorRethrown ==
  /\ gb_pc = "done"
  /\ ~shuttingDown
  /\ Len(checked) >= 2
  /\ NoCandidatePassed
  /\ gb_result = Threw("ResolveUrlError")

(* The page-source poll of lines 262-268 is running.                       *)
Polling == InOpenStep /\ rs_pc \in {"pollBlank", "pollUrl"}

(* C15: the poll loop terminates: while it runs on a session that the      *)
(* shutdown listener has quit, a step that changes the state, and so       *)
(* leaves the round the loop is in, is possible.                           *)
Cex_C15_PollTerminates ==
  (Polling /\ shuttingDown /\ SessionLost) => ENABLED <<NextSession>>_vars

PositionIn(order, name) == CHOOSE i \in 1..Len(order) : order[i] = name
InOrder(order) ==
  \A i, j \in 1..Len(gb_steps) :
    i < j => PositionIn(order, gb_steps[i].step) < PositionIn(order, gb_steps[j].step)
ExpectedSteps ==
  <<"setTimeouts">>
    \o (IF viewport THEN <<"resizeViewport">> ELSE <<>>)
    \o <<"openStorybookPage", "waitForStorybook">>
    \o (IF storybookGlobals /\ ~versionLessThan6 THEN <<"updateGlobals">> ELSE <<>>)

Cex_C20_WrappedWithUrl ==
  (/\ gb_pc = "done"
   /\ gb_error \notin {"", "ResolveUrlError"}
   /\ CaughtWhileRunning) =>
      gb_result = Wrapped(IF session = "none" THEN "realAddress" ELSE "currentUrl",
                          gb_error)

----------------------------------------------------------------------------
(* Properties of switchStory.                                              *)

CallsOf(op) == {i \in 1..Len(sw_calls) : sw_calls[i].op = op}
Selected(i) ==
  /\ sw_calls[i].op = "executeAsyncScript"
  /\ sw_calls[i].answer \in {"undefined", ""}

(* C12: on a page without the selection hook the selection script is run   *)
(* once at most; once it has answered, switchStory has failed with the     *)
(* message that says creevey can't switch story; the root container is     *)
(* never inspected and neither this.captureElement nor this.takeScreenshot *)
(* is touched.                                                             *)
Thm_C12_HookAbsent ==
  ~hook /\ sw_pc # "rest" =>
    /\ Cardinality(CallsOf("executeAsyncScript")) <= 1
    /\ \A i \in CallsOf("executeAsyncScript") :
         sw_calls[i].answer # "rejected" =>
           /\ sw_calls[i].answer = HookAbsentMessage
           /\ sw_pc = "done"
           /\ sw_result = Error(HookAbsentMessage)
    /\ CallsOf("executeScript") = {}
    /\ captureProperty = "previous"
    /\ boundTo = "previous"

(* C12 witness: the script ran on a page without the hook and switchStory  *)
(* failed with the descriptive message.                                    *)
Wit_C12_HookAbsentFailure ==
  /\ ~hook
  /\ CallsOf("executeAsyncScript") # {}
  /\ sw_result = Error(HookAbsentMessage)

(* C13: the root container is inspected once at most, directly after a     *)
(* selection that succeeded and only when no selector is pinned;           *)
(* takeScreenshot is rebound only after a selection that succeeded; a      *)
(* pinned selector is the one bound; otherwise no child binds no selector  *)
(* and removes this.captureElement, one child binds '#root > *' and more   *)
(* than one child bind '#root'.                                            *)
Thm_C13_CaptureTarget ==
  /\ Cardinality(CallsOf("executeScript")) <= 1
  /\ \A i \in CallsOf("executeScript") :
       i > 1 /\ Selected(i - 1) /\ pinned = "undefined"
  /\ boundTo # "previous" =>
       /\ sw_result = Done
       /\ \E i \in 1..Len(sw_calls) : Selected(i)
  /\ (sw_result = Done /\ pinned # "undefined") =>
       /\ boundTo = pinned
       /\ CallsOf("executeScript") = {}
  /\ (sw_result = Done /\ pinned = "undefined") =>
       /\ Cardinality(CallsOf("executeScript")) = 1
       /\ childrenCount = 0 => boundTo = "null" /\ captureProperty = "deleted"
       /\ childrenCount = 1 => boundTo = "#root > *" /\ captureProperty = "defined"
       /\ childrenCount > 1 => boundTo = "#root" /\ captureProperty = "defined"

(* C13 witness: nothing pinned, one child under the root, and the child    *)
(* selector bound.                                                         *)
Wit_C13_SingleChild ==
  /\ pinned = "undefined"
  /\ childrenCount = 1
  /\ sw_result = Done
  /\ boundTo = "#root > *"

(* C23: once the fatal-error handler of the master has run with the flag   *)
(* not set, and so has set the exit code to -1, the exit code stays -1.    *)
Cex_C23_FatalExitCodeKept ==
  CountCalls("fatal error") > 0 => exitCode = ExitCode(-1)

(* C25: shutdownWorkers is called at most once in the life of the master.  *)
Cex_C25_ShutdownOnce ==
  Len(shutdownCalls) <= 1

----------------------------------------------------------------------------
(* Properties of the fatal-error handler.                                  *)

(* C14: a run of the handler with the shutting-down flag set changes       *)
(* nothing: not the exit code, not the messages sent to the master, not    *)
(* the calls of shutdownWorkers.  A run with the flag not set sets the     *)
(* exit code to -1; in a worker it sends one 'error' message and calls     *)
(* no shutdownWorkers, in the master it calls shutdownWorkers once and     *)
(* sends nothing.  No other step sends an 'error' message or calls         *)
(* shutdownWorkers from the handler.                                       *)
Thm_C14_FatalHandler ==
  [][/\ FatalError /\ isShuttingDown =>
          /\ exitCode' = exitCode
          /\ emitted' = emitted
          /\ shutdownCalls' = shutdownCalls
     /\ FatalError /\ ~isShuttingDown =>
          /\ exitCode' = ExitCode(-1)
          /\ isWorker =>
               /\ emitted' = Append(emitted, "error")
               /\ shutdownCalls' = shutdownCalls
          /\ ~isWorker =>
               /\ emitted' = emitted
               /\ shutdownCalls' = Append(shutdownCalls, "fatal error")
     /\ isShuttingDown =>
          /\ emitted' = emitted
          /\ CountCallsNext("fatal error") = CountCalls("fatal error")]_vars

(* C14 witness: a worker whose handler ran with the flag not set, and      *)
(* whose flag was set afterwards.                                          *)
Wit_C14_WorkerReported ==
  /\ isWorker
  /\ isShuttingDown
  /\ emitted = <<"error">>
  /\ exitCode = ExitCode(-1)

----------------------------------------------------------------------------
(* Properties of the scheduler.                                            *)

InRun(t) == registry[t].status = "running"
Final(t) == registry[t].status \in {"success", "fail"}

====
